---- MODULE Spec2Model ----
(***************************************************************************)
(* A model of the AIR3 Twitch bot: the discovered-identifier store         *)
(* (TokenStoreService), the per-identity credential manager (TwitchClient) *)
(* and the posting loop (questionLoop of index.ts).                        *)
(*                                                                         *)
(* The three parts have their own specifications over the same variables: *)
(* SpecStore, SpecClient and SpecLoop (SpecLoopFair with fairness).  Each  *)
(* leaves the variables it does not follow at their initial values.        *)
(* SpecMain runs main up to and through the loop, SpecClients the refresh  *)
(* timers of both identities, SpecTimers the two timers of one identity    *)
(* and SpecWrites the store with the writes of its document followed.      *)
(***************************************************************************)
EXTENDS Naturals, Integers, Sequences, FiniteSets, TLC

(***************************************************************************)
(* Bounds of the model.                                                    *)
(***************************************************************************)

\* The capacity of the store.  The code sets MAX_STORE_SIZE = 200; the model
\* scales it down to a capacity that a handful of additions fills.
MAX_STORE_SIZE == 2

\* The longest list one addContractAddresses call is given.
MaxBatch == 2

\* The number of writes of the identifier-store document issued before the
\* construction-time load has read the document (the load is started first
\* and reads a small local file; additions wait for a network fetch).
MaxEarlyWrites == 1

\* The cycles of the posting loop that are counted (the loop itself goes on).
MaxCycles == 2

\* The timer callbacks of an identity and the sendMessage calls of its owner
\* one behaviour follows.
MaxCalls == 1

\* Identifiers: one more than the capacity, so that a full store can still be
\* offered an identifier it does not hold.
Addrs == 1..(MAX_STORE_SIZE + 1)

\* The lists addContractAddresses is given: every list of identifiers up to
\* MaxBatch long, repetitions included.
Batches == UNION {[1..k -> Addrs] : k \in 0..MaxBatch}

VARIABLES
    contractAddresses,  \* TokenStoreService.contractAddresses
    currentIndex,       \* TokenStoreService.currentIndex
    storeFile,          \* the content of discovered_dex_tokens.json
    fileWrites,         \* writes of that document issued and not yet completed
    load,               \* the construction-time loadPersistedAddresses call
    ret,                \* what the last step's getNextContractAddress returned
    issued,             \* the fs.writeFile calls the last step issued
    offered,            \* the identifiers not stored the last step's call was given
    early,              \* writes issued so far, until the load has read
    writeFailed,        \* whether a write of the document followed has failed
    pass,               \* the identifiers returned since the store last changed
    script              \* how much of the capacity example the run has followed

storeVars == <<contractAddresses, currentIndex, storeFile, fileWrites, load,
               ret, issued, offered, early, writeFailed, pass, script>>

VARIABLES
    useDexScreenerNext, \* index.ts: the source-alternation flag
    loopPc,             \* where questionLoop is suspended
    tokenInfo,          \* questionLoop: the subject selected in this cycle
    question,           \* questionLoop: what getFormattedQuestion gave
    bots,               \* main: the identities whose start() succeeded
    questions,          \* QuestionService.questions, as loadQuestions left it
    cycle,              \* the number of the running cycle (it stops at MaxCycles)
    toggles,            \* how often this cycle has toggled the flag
    firstSource,        \* the source this cycle consulted first
    lastOutcome,        \* how the body of the last ended cycle ended
    deltaTMinMinutes,   \* main: the lower bound of the wait, as parsed
    deltaTMaxMinutes,   \* main: the upper bound of the wait, as parsed
    waitTimeMs,         \* the delay of the loop's pending timer
    startResult,        \* how the start() of each identity ended
    consulted,          \* the sources this cycle has consulted, in order
    selectedBot,        \* the identity this cycle called sendMessage on
    sendCalls,          \* the sendMessage calls this cycle has made
    refills,            \* the refills of the store this cycle has awaited
    active,             \* the invocations of questionLoop in progress
    pending             \* the setImmediate callbacks scheduled and not yet run

loopVars == <<useDexScreenerNext, loopPc, tokenInfo, question, bots, questions,
              cycle, toggles, firstSource, lastOutcome, deltaTMinMinutes,
              deltaTMaxMinutes, waitTimeMs, startResult, consulted,
              selectedBot, sendCalls, refills, active, pending>>

\* The credential managers (TwitchClient) and the credential document.
VARIABLES
    client,             \* per identity: token, cfg.refreshToken, userId,
                        \* cfg.botUserId, and whether its timers are armed
    task,               \* per identity and chain of calls: the stack of the
                        \* calls in progress, the snapshot cfgDisk of
                        \* persistTokens and the result of the last call
    configFile,         \* chatbot.config.json: the entry of each identity
    calls,              \* the timer callbacks and sendMessage calls so far
    ended               \* the calls that ended in the last step

clientVars == <<client, task, configFile, calls, ended>>

vars == <<storeVars, loopVars, clientVars>>

(***************************************************************************)
(* Sequences.                                                              *)
(***************************************************************************)

Range(s) == {s[i] : i \in 1..Len(s)}

Includes(s, x) == \E i \in 1..Len(s) : s[i] = x

NoDuplicates(s) == \A i, j \in 1..Len(s) : i # j => s[i] # s[j]

\* Array.prototype.slice(0, n)
Slice(s, n) == SubSeq(s, 1, IF Len(s) < n THEN Len(s) ELSE n)

\* the last n elements of s
LastN(s, n) == IF Len(s) <= n THEN s ELSE SubSeq(s, Len(s) - n + 1, Len(s))

(***************************************************************************)
(* TokenStoreService                                                       *)
(***************************************************************************)

\* "no such file" (0 is no identifier)
NoFile == <<0>>

\* the content of the document once nothing reads it any more
Untracked == <<0, 0>>

\* tokenInfo of questionLoop while no subject is selected
NoSubject == "undefined"

\* no getNextContractAddress call in the last step / the call returned null
NoCall == 0 - 1
Null == 0

BotKeys == {"bot1", "bot2"}

\* The chains of calls of one identity: the calls of its owner (start,
\* sendMessage) and the callbacks of its two timers.
Tasks == {"main", "refreshTimer", "validationTimer"}

\* An entry of chatbot.config.json, and the document before anything ran.
Entry(clientId, refreshToken, oauthToken, botUserId) ==
    [clientId |-> clientId, refreshToken |-> refreshToken,
     oauthToken |-> oauthToken, botUserId |-> botUserId]

\* A chain of calls that has not run.
IdleTask == [stack |-> <<>>, cfgDisk |-> Null, result |-> "none"]

\* An identity as its constructor leaves it: lines 50-59.
Constructed(entry) ==
    [token |-> entry.oauthToken, refreshToken |-> entry.refreshToken,
     userId |-> entry.botUserId, botUserId |-> entry.botUserId, timers |-> FALSE]

\* The credential managers while only the store or the loop is looked at.
ClientIdle ==
    /\ configFile = [b \in BotKeys |-> Entry(b, 1, 0, 0)]
    /\ client = [b \in BotKeys |-> Constructed(configFile[b])]
    /\ task = [b \in BotKeys |-> [t \in Tasks |-> IdleTask]]
    /\ calls = [b \in BotKeys |-> 0]
    /\ ended = <<>>

\* The documents a previous run of the program can have left behind: no
\* file, or a list of distinct identifiers (persistAddresses writes the
\* store, and only after an addition).  Identifiers are interchangeable, so
\* one list of a length stands for all of them: a list shorter than the
\* capacity, a full one, and one longer than the capacity (a file kept from a
\* build with a larger store).
InitialFiles ==
    {NoFile} \cup {[i \in 1..k |-> i] : k \in {1, MAX_STORE_SIZE, MAX_STORE_SIZE + 1}}

\* One turn of the loop of addContractAddresses.
AddOneEvictNewest(store, addr) ==
    IF Includes(store, addr) THEN store
    ELSE IF Len(store) >= MAX_STORE_SIZE
         THEN Append(SubSeq(store, 1, Len(store) - 1), addr)
         ELSE Append(store, addr)

AddOneNoDedup(store, addr) ==
    IF Len(store) >= MAX_STORE_SIZE
    THEN Append(Tail(store), addr)
    ELSE Append(store, addr)

AddOne(store, addr) ==
    IF Includes(store, addr) THEN store
    ELSE IF Len(store) >= MAX_STORE_SIZE
         THEN Append(Tail(store), addr)
         ELSE Append(store, addr)

\* The loop of addContractAddresses over newAddresses, from the store and
\* the addedCount reached so far: the store and the addedCount it ends with.
RECURSIVE AddLoop(_, _, _)
AddLoop(store, newAddresses, addedCount) ==
    IF newAddresses = <<>> THEN [store |-> store, addedCount |-> addedCount]
    ELSE LET addr == Head(newAddresses)
         IN AddLoop(AddOne(store, addr), Tail(newAddresses),
                    IF Includes(store, addr) THEN addedCount ELSE addedCount + 1)

\* How many entries of the list addContractAddresses is given are not in the
\* store when it is called.
NotStored(store, newAddresses) ==
    Cardinality({i \in 1..Len(newAddresses) : ~Includes(store, newAddresses[i])})

\* The persistAddresses calls addContractAddresses makes: lines 330-333.
WritesIssuedPerAddition(addedCount) == addedCount

WritesIssued(addedCount) == IF addedCount > 0 THEN 1 ELSE 0

\* The index getNextContractAddress reads at: lines 344-346.
ReadIndexOffByOne(index, len) ==
    IF index >= len THEN (IF len > 1 THEN 1 ELSE 0) ELSE index

ReadIndexLate(index, len) == IF index > len THEN 0 ELSE index

ReadIndex(index, len) == IF index >= len THEN 0 ELSE index

\* store[i] of an array: undefined (Null) beyond its end.
At(store, i) == IF i < Len(store) THEN store[i + 1] ELSE Null

\* getNextContractAddress() on a store and a cursor: the address returned
\* (Null for null) and the cursor left.
NextAddressNoReset(store, index) ==
    IF Len(store) = 0
    THEN [address |-> Null, currentIndex |-> index]
    ELSE [address |-> At(store, index),
          currentIndex |-> IF index < Len(store) THEN index + 1 ELSE index]

NextAddress(store, index) ==
    IF Len(store) = 0
    THEN [address |-> Null, currentIndex |-> index]
    ELSE [address |-> At(store, ReadIndex(index, Len(store))),
          currentIndex |-> ReadIndex(index, Len(store)) + 1]

\* What loadPersistedAddresses assigns from the parsed document.
LoadedNoSlice(data) == data

Loaded(data) == Slice(data, MAX_STORE_SIZE)

\* The identifiers returned since the store last changed (the last
\* MAX_STORE_SIZE of them).
PassAfter(store2, keep) == IF store2 = contractAddresses THEN keep ELSE <<>>

\* The example of the specification: a fresh store with no document is given
\* 1, 2, .., MAX_STORE_SIZE + 1 one at a time and is then read.  script counts
\* the steps of the example taken so far; Off once the run leaves it.
Off == 0 - 1
ScriptAdds == MAX_STORE_SIZE + 1
ScriptLen == ScriptAdds + MAX_STORE_SIZE + 2

InitStore ==
    /\ contractAddresses = <<>>
    /\ currentIndex = 0
    /\ storeFile \in InitialFiles
    /\ fileWrites = {}
    /\ load = [st |-> "reading", data |-> <<>>]
    /\ ret = NoCall
    /\ issued = 0
    /\ offered = NoCall
    /\ early = 0
    /\ writeFailed = FALSE
    /\ pass = <<>>
    /\ script = IF storeFile = NoFile THEN 0 ELSE Off

\* fs.readFile of loadPersistedAddresses takes the content of the document,
\* or the read or the parse fails and the catch block logs it.  This is the
\* only read of the document in the process: from here on its content can
\* reach no field of the store, and the model stops following it (Untracked).
LoadRead ==
    /\ load.st = "reading"
    /\ \E ok \in BOOLEAN :
          load' = IF ok /\ storeFile # NoFile
                  THEN [st |-> "read", data |-> storeFile]
                  ELSE [st |-> "done", data |-> <<>>]
    /\ storeFile' = Untracked
    /\ fileWrites' = {}
    /\ early' = 0
    /\ writeFailed' = FALSE
    /\ ret' = NoCall
    /\ issued' = 0
    /\ offered' = NoCall
    /\ UNCHANGED <<contractAddresses, currentIndex, pass, script>>
    /\ UNCHANGED <<loopVars, clientVars>>

\* loadPersistedAddresses resumes after the read and assigns the list.
LoadAssign ==
    /\ load.st = "read"
    /\ contractAddresses' = Loaded(load.data)
    /\ load' = [st |-> "done", data |-> <<>>]
    /\ ret' = NoCall
    /\ issued' = 0
    /\ offered' = NoCall
    /\ pass' = PassAfter(contractAddresses', pass)
    /\ script' = Off
    /\ UNCHANGED <<currentIndex, storeFile, fileWrites, early, writeFailed>>
    /\ UNCHANGED <<loopVars, clientVars>>

\* addContractAddresses(newAddresses), with the persistAddresses call it ends
\* with: JSON.stringify takes the snapshot at the call, fs.writeFile is not
\* awaited.
AddContractAddresses(newAddresses) ==
    \E done \in {AddLoop(contractAddresses, newAddresses, 0)} :
    \E tracked \in {done.addedCount > 0 /\ storeFile # Untracked} :
       /\ tracked => early < MaxEarlyWrites
       /\ contractAddresses' = done.store
       /\ fileWrites' = IF tracked THEN fileWrites \cup {done.store} ELSE fileWrites
       /\ early' = IF tracked THEN early + 1 ELSE early
       /\ ret' = NoCall
       /\ issued' = WritesIssued(done.addedCount)
       /\ offered' = NotStored(contractAddresses, newAddresses)
       /\ pass' = PassAfter(done.store, pass)
       /\ script' = IF /\ script \in 0..(ScriptAdds - 1)
                       /\ newAddresses = <<script + 1>>
                    THEN script + 1 ELSE Off
       /\ UNCHANGED <<currentIndex, storeFile, load, writeFailed>>
       /\ UNCHANGED <<loopVars, clientVars>>

\* A write of persistAddresses completes (or fails, which is logged).
WriteDone ==
    /\ \E w \in fileWrites : \E ok \in BOOLEAN :
          /\ storeFile' = IF ok THEN w ELSE storeFile
          /\ fileWrites' = fileWrites \ {w}
          /\ writeFailed' = (writeFailed \/ ~ok)
    /\ ret' = NoCall
    /\ issued' = 0
    /\ offered' = NoCall
    /\ UNCHANGED <<contractAddresses, currentIndex, load, early, pass, script>>
    /\ UNCHANGED <<loopVars, clientVars>>

\* getNextContractAddress()
GetNextContractAddress ==
    \E got \in {NextAddress(contractAddresses, currentIndex)} :
       /\ ret' = got.address
       /\ currentIndex' = got.currentIndex
       /\ pass' = IF got.address = Null THEN pass
                  ELSE LastN(Append(pass, got.address), MAX_STORE_SIZE)
       /\ issued' = 0
       /\ offered' = NoCall
       /\ script' = IF script \in ScriptAdds..(ScriptLen - 1) THEN script + 1 ELSE Off
       /\ UNCHANGED <<contractAddresses, storeFile, fileWrites, load, early,
                       writeFailed>>
       /\ UNCHANGED <<loopVars, clientVars>>

NextStore ==
    \/ LoadRead
    \/ LoadAssign
    \/ \E newAddresses \in Batches : AddContractAddresses(newAddresses)
    \/ WriteDone
    \/ GetNextContractAddress

\* The loop variables while only the store is looked at.
LoopIdle ==
    /\ useDexScreenerNext = FALSE
    /\ loopPc = "idle"
    /\ tokenInfo = NoSubject
    /\ question = "null"
    /\ bots = {}
    /\ questions = <<>>
    /\ cycle = 0
    /\ toggles = 0
    /\ firstSource = "none"
    /\ lastOutcome = "none"
    /\ deltaTMinMinutes = [nan |-> TRUE, n |-> 0]
    /\ deltaTMaxMinutes = [nan |-> TRUE, n |-> 0]
    /\ waitTimeMs = 0 - 1
    /\ startResult = [b \in BotKeys |-> "none"]
    /\ consulted = <<>>
    /\ selectedBot = "none"
    /\ sendCalls = 0
    /\ refills = 0
    /\ active = 0
    /\ pending = 0

\* The store alone, the loop and the credential managers idle.
InitStoreAlone == InitStore /\ LoopIdle /\ ClientIdle

SpecStore == InitStoreAlone /\ [][NextStore]_vars

\* The store after the construction-time load found no document and the
\* first refill added one identifier: the write of the document the refill
\* issued is in flight, and the document is followed from here on.
InitWrites ==
    /\ contractAddresses = <<1>>
    /\ currentIndex = 0
    /\ storeFile = NoFile
    /\ fileWrites = {<<1>>}
    /\ load = [st |-> "done", data |-> <<>>]
    /\ ret = NoCall
    /\ issued = 0
    /\ offered = NoCall
    /\ early = 0
    /\ writeFailed = FALSE
    /\ pass = <<>>
    /\ script = Off

\* The refills, the reads and the completions of the writes after the load.
NextWrites ==
    \/ \E newAddresses \in Batches : AddContractAddresses(newAddresses)
    \/ WriteDone
    \/ GetNextContractAddress

InitWritesAlone == InitWrites /\ LoopIdle /\ ClientIdle

SpecWrites == InitWritesAlone /\ [][NextWrites]_vars

(***************************************************************************)
(* Claims about the store, checked under SpecStore.                        *)
(***************************************************************************)

\* C1: in every reachable state the store holds at most MAX_STORE_SIZE
\* identifiers and no identifier twice.
StoreBoundedAndUnique ==
    /\ Len(contractAddresses) <= MAX_STORE_SIZE
    /\ NoDuplicates(contractAddresses)

\* The store is full after the additions of the example (the last of them
\* evicted) and the construction-time load has ended.
StoreFullAfterEviction ==
    /\ script = ScriptAdds
    /\ load.st = "done"
    /\ Len(contractAddresses) = MAX_STORE_SIZE

\* What an addition batch that added something does to the store: it drops
\* the first k identifiers, k > 0 only if the store ends full, keeps the
\* others in place and order, and appends behind them.
DropsOnlyOldest ==
    \E k \in 0..Len(contractAddresses) :
        LET kept == SubSeq(contractAddresses, k + 1, Len(contractAddresses))
        IN /\ Len(kept) <= Len(contractAddresses')
           /\ SubSeq(contractAddresses', 1, Len(kept)) = kept
           /\ k > 0 => Len(contractAddresses') = MAX_STORE_SIZE

\* The example: after 1, .., MAX_STORE_SIZE + 1 were added to a fresh store it
\* holds 2, .., MAX_STORE_SIZE + 1, and the reads that follow return them in
\* that order, cyclically.
ExampleHolds ==
    /\ script = ScriptAdds =>
          contractAddresses = [i \in 1..MAX_STORE_SIZE |-> i + 1]
    /\ script > ScriptAdds =>
          ret = ((script - ScriptAdds - 1) % MAX_STORE_SIZE) + 2

\* C2: an identifier the full store does not hold takes the place of the
\* head of the sequence and is appended at the tail; no addition batch drops
\* an identifier while one added before it stays; and the example holds.
FifoEviction ==
    /\ [][\A a \in Addrs :
            ( /\ Len(contractAddresses) = MAX_STORE_SIZE
              /\ ~Includes(contractAddresses, a)
              /\ AddContractAddresses(<<a>>) )
            => contractAddresses' = Append(Tail(contractAddresses), a)]_vars
    /\ [][(issued' = 1) => DropsOnlyOldest]_vars
    /\ []ExampleHolds

\* The whole example was run: the additions, then MAX_STORE_SIZE + 2 reads.
ExampleRun == script = ScriptLen

\* C3: with N identifiers stored, the last N reads made since the store last
\* changed returned N different identifiers, that is each stored identifier
\* once; and fewer reads returned no identifier twice.
FullPassVisitsEachOnce ==
    LET n == Len(contractAddresses)
        window == LastN(pass, n)
    IN n >= 1 =>
         /\ NoDuplicates(window)
         /\ Range(window) \subseteq Range(contractAddresses)
         /\ Len(pass) >= n => Range(window) = Range(contractAddresses)

\* A pass over a full store that began in the middle of it and wrapped.
PassWrapped ==
    /\ Len(contractAddresses) = MAX_STORE_SIZE
    /\ Len(pass) = MAX_STORE_SIZE
    /\ pass[1] # contractAddresses[1]

\* C12: an addContractAddresses call given an identifier that is not stored
\* issues exactly one write of the document, of the sequence the whole list
\* leaves; a call given only stored identifiers, or none, issues no write
\* and leaves the sequence and the cursor as they were.
AddWritesOnceIfAdded ==
    [][offered' # NoCall =>
          IF offered' > 0
          THEN /\ issued' = 1
               /\ storeFile # Untracked => contractAddresses' \in fileWrites'
          ELSE /\ issued' = 0
               /\ fileWrites' = fileWrites
               /\ contractAddresses' = contractAddresses
               /\ currentIndex' = currentIndex]_vars

\* The first call that added anything added two identifiers and issued its
\* one write, which is still in flight.
TwoAddedOneWrite ==
    /\ early = 1
    /\ issued = 1
    /\ Len(contractAddresses) = 2
    /\ fileWrites = {contractAddresses}

\* C13: getNextContractAddress returns null exactly when the store is empty
\* and otherwise an identifier of the store; it leaves the sequence as it was
\* and issues no write of the document.
ReadIsNonDestructive ==
    [][GetNextContractAddress =>
          /\ (ret' = Null) <=> (contractAddresses = <<>>)
          /\ ret' # Null => Includes(contractAddresses, ret')
          /\ contractAddresses' = contractAddresses
          /\ issued' = 0
          /\ fileWrites' = fileWrites
          /\ storeFile' = storeFile]_vars

\* A read has wrapped: it returned the first identifier of a store that had
\* been read to its end.
ReadWrapped ==
    /\ Len(pass) > 1
    /\ currentIndex = 1
    /\ ret = contractAddresses[1]

\* C19 as stated: whenever the store is not empty the cursor is an index
\* into it.
CursorInRange ==
    contractAddresses # <<>> => currentIndex \in 0..(Len(contractAddresses) - 1)

\* C19, amended: the cursor is between 0 and the capacity, and a read of a
\* store that is not empty reads at an index into it, which it leaves the
\* cursor one past: between reads the cursor can be the size of the store
\* (after the last identifier was read) or more (after the construction-time
\* load assigned a shorter sequence).
CursorReadsInRange ==
    /\ [](currentIndex \in 0..MAX_STORE_SIZE)
    /\ [][(GetNextContractAddress /\ contractAddresses # <<>>) =>
             /\ currentIndex' \in 1..Len(contractAddresses)
             /\ ret' = contractAddresses[currentIndex']]_vars

\* The last identifier of the store has just been read: the cursor is the
\* size of the store.
CursorAtEnd ==
    /\ contractAddresses # <<>>
    /\ currentIndex = Len(contractAddresses)
    /\ ret = contractAddresses[currentIndex]

\* C20 as stated: no step takes the store from a larger size to a smaller
\* one, and an identifier leaves the store only when the store is full.
StoreNeverShrinks ==
    [][/\ Len(contractAddresses') >= Len(contractAddresses)
       /\ Range(contractAddresses) \subseteq Range(contractAddresses')
             \/ Len(contractAddresses') = MAX_STORE_SIZE]_vars

(***************************************************************************)
(* The collaborators of the posting loop.                                  *)
(***************************************************************************)

\* MIN_STORE_THRESHOLD of the store
MIN_STORE_THRESHOLD == 10

\* How a fetch of a market-data function ends: the request throws, the
\* response is not ok, it holds no entries, or it holds entries.
FetchOutcomes == {"throws", "notOk", "noEntries", "entries"}

\* getTrendingCoinGeckoSymbols(): "symbols" when the list it returns has
\* entries, "none" when it is empty.  Every failure is caught inside it and
\* gives the empty list; "throws" would be an exception leaving it.
TrendingUncaught(outcome) ==
    IF outcome = "entries" THEN "symbols"
    ELSE IF outcome = "throws" THEN "throws" ELSE "none"

Trending(outcome) == IF outcome = "entries" THEN "symbols" ELSE "none"

\* getTopBoostedDexScreenerAddresses(): the list it returns.
TopBoosted(outcome, addresses) == IF outcome = "entries" THEN addresses ELSE <<>>

\* The lists it returns to the loop: a failure gives the empty list, a
\* response one address or two.
BoostedLists ==
    {TopBoosted(outcome, addresses) :
        outcome \in FetchOutcomes, addresses \in {<<1>>, <<1, 2>>}}

\* The categories of questions.json: one that requires a token and one that
\* does not (QuestionService.categoriesRequiringToken names the first kind).
Categories == {"GET_CRYPTO_PRICE", "GENERAL_AGENT_QUERIES"}
categoriesRequiringToken == {"GET_CRYPTO_PRICE"}

\* What questions.json holds for a category: an empty list, templates, or
\* entries that are no strings (JSON.parse does not check them).
Entries == {"empty", "templates", "malformed"}

\* The documents loadQuestions can leave in QuestionService.questions.
QuestionSets == UNION {[cats -> Entries] : cats \in SUBSET Categories}

\* getFormattedQuestion without the second draw of lines 73-83.
GetFormattedQuestionNoRedraw(qs, info, randomCategory, redrawn) ==
    IF DOMAIN qs = {} THEN "null"
    ELSE IF qs[randomCategory] = "empty" THEN "null"
    ELSE IF qs[randomCategory] = "malformed" THEN "throws"
    ELSE randomCategory

\* getFormattedQuestion(tokenInfo), with randomCategory the category drawn
\* first and redrawn the category drawn among the token (or the general)
\* categories: "null", "throws", or the category of the question returned.
GetFormattedQuestion(qs, info, randomCategory, redrawn) ==
    LET categories == DOMAIN qs
        tokenCategories == categories \cap categoriesRequiringToken
        generalCategories == categories \ categoriesRequiringToken
        chosen ==
            IF info # NoSubject /\ randomCategory \notin categoriesRequiringToken
            THEN (IF tokenCategories # {} THEN redrawn ELSE randomCategory)
            ELSE IF info = NoSubject
                 THEN (IF generalCategories # {} THEN redrawn ELSE "none")
                 ELSE randomCategory
    IN IF categories = {} THEN "null"
       ELSE IF chosen = "none" THEN "null"
       ELSE IF qs[chosen] = "empty" THEN "null"
       ELSE IF qs[chosen] = "malformed" THEN "throws"
       ELSE chosen

\* The categories the second draw of getFormattedQuestion can give.
Redraws(qs, info) ==
    IF info # NoSubject
    THEN (IF DOMAIN qs \cap categoriesRequiringToken # {}
          THEN DOMAIN qs \cap categoriesRequiringToken ELSE {"none"})
    ELSE (IF DOMAIN qs \ categoriesRequiringToken # {}
          THEN DOMAIN qs \ categoriesRequiringToken ELSE {"none"})

(***************************************************************************)
(* main of index.ts, up to the first cycle                                 *)
(***************************************************************************)

\* A number of JavaScript: NaN, or an integer.
NaN == [nan |-> TRUE, n |-> 0]
Number(n) == [nan |-> FALSE, n |-> n]

\* The decimal digits, the digit at position i standing for i - 1.
Digits == <<"0", "1", "2", "3", "4", "5", "6", "7", "8", "9">>
IsDigit(c) == \E i \in DOMAIN Digits : Digits[i] = c
DigitValue(c) == (CHOOSE i \in DOMAIN Digits : Digits[i] = c) - 1

\* A string, as the sequence of its characters, without its leading blanks.
RECURSIVE TrimStart(_)
TrimStart(s) == IF s # <<>> /\ Head(s) = " " THEN TrimStart(Tail(s)) ELSE s

\* The value of the decimal digits a string begins with, after acc.
RECURSIVE ParseDigits(_, _)
ParseDigits(s, acc) ==
    IF s = <<>> \/ ~IsDigit(Head(s))
    THEN acc
    ELSE ParseDigits(Tail(s), 10 * acc + DigitValue(Head(s)))

\* parseInt(s, 10): blanks are skipped, then a sign is read, then the digits
\* up to the first character that is none; NaN when there is no digit.
ParseInt(s) ==
    LET t == TrimStart(s)
        signed == t # <<>> /\ Head(t) \in {"-", "+"}
        body == IF signed THEN Tail(t) ELSE t
    IN IF body = <<>> \/ ~IsDigit(Head(body))
       THEN NaN
       ELSE Number(IF signed /\ Head(t) = "-"
                   THEN 0 - ParseDigits(body, 0)
                   ELSE ParseDigits(body, 0))

\* process.env.NAME || fallback: an unset or empty variable gives the fallback.
OrDefault(s, fallback) == IF s = <<>> THEN fallback ELSE s

\* What DELTA_T_MIN_MINUTES and DELTA_T_MAX_MINUTES can hold: nothing, no
\* number, zero, a negative number, an integer, a number with a fraction.
EnvStrings ==
    {<<>>, <<"a", "b", "c">>, <<"0">>, <<"-", "1">>, <<"6", "1">>,
     <<" ", "5", ".", "5">>}

\* Lines 53 and 54.
DeltaTMin(envMin) == ParseInt(OrDefault(envMin, <<"5">>))
DeltaTMax(envMax) == ParseInt(OrDefault(envMax, <<"6", "0">>))

\* The negation of the test of line 56.
IntervalValidNoOrder(min, max) == ~(min.nan \/ max.nan \/ min.n <= 0)

IntervalValid(min, max) ==
    ~(min.nan \/ max.nan \/ min.n <= 0 \/ max.n <= min.n)

\* The bounds main goes on with.
ValidIntervals ==
    {pair \in {<<DeltaTMin(envMin), DeltaTMax(envMax)>> :
                  envMin \in EnvStrings, envMax \in EnvStrings} :
        IntervalValid(pair[1], pair[2])}

\* Math.random(): a fraction in [0, 1).
Randoms == {[num |-> 0, den |-> 1], [num |-> 1, den |-> 2], [num |-> 3, den |-> 4]}

\* Lines 99 and 100: the wait of a cycle, in milliseconds.
WaitTimeMsNoOffset(random, min, max) ==
    (random.num * (max - min) * 60 * 1000) \div random.den

WaitTimeMs(random, min, max) ==
    (random.num * (max - min) * 60 * 1000) \div random.den + min * 60 * 1000

\* The waits questionLoop can choose between the bounds main holds.
Waits ==
    {WaitTimeMs(random, deltaTMinMinutes.n, deltaTMaxMinutes.n) : random \in Randoms}

\* No timer of the loop is pending; no identity has been selected.
NoTimer == 0 - 1
NoBot == "none"

\* Where main stands before the loop runs, and after process.exit.
StartupPcs == {"main", "start1", "start2", "loadQuestions", "firstRefill", "exited"}

\* Lines 69-73: main goes on with the identities that started, if there is one.
AfterStartsAlways(started) == "loadQuestions"

AfterStarts(started) == IF started = {} THEN "exited" ELSE "loadQuestions"

\* main is called: the module has been loaded, nothing has run.
InitMain ==
    /\ useDexScreenerNext = FALSE
    /\ loopPc = "main"
    /\ tokenInfo = NoSubject
    /\ question = "null"
    /\ bots = {}
    /\ questions = <<>>
    /\ cycle = 0
    /\ toggles = 0
    /\ firstSource = "none"
    /\ lastOutcome = "none"
    /\ deltaTMinMinutes = NaN
    /\ deltaTMaxMinutes = NaN
    /\ waitTimeMs = NoTimer
    /\ startResult = [b \in BotKeys |-> "none"]
    /\ consulted = <<>>
    /\ selectedBot = NoBot
    /\ sendCalls = 0
    /\ refills = 0
    /\ active = 0
    /\ pending = 0
    /\ contractAddresses = <<>>
    /\ currentIndex = 0
    /\ storeFile = Untracked
    /\ fileWrites = {}
    /\ load = [st |-> "done", data |-> <<>>]
    /\ ret = NoCall
    /\ issued = 0
    /\ offered = NoCall
    /\ early = 0
    /\ writeFailed = FALSE
    /\ pass = <<>>
    /\ script = Off

\* The variables of the loop that main leaves alone until the loop starts.
cycleVars == <<useDexScreenerNext, tokenInfo, question, cycle, toggles,
               firstSource, lastOutcome, consulted, selectedBot, sendCalls,
               refills>>

\* The invocations of questionLoop: those running and those scheduled.
invocations == <<active, pending>>

\* Lines 44-64: the configuration is loaded and the interval bounds are read
\* and tested; main exits, or constructs the identities and starts the first.
MainStarts ==
    /\ UNCHANGED clientVars
    /\ loopPc = "main"
    /\ \E appConfig \in {"null", "config"} : \E envMin, envMax \in EnvStrings :
          IF appConfig = "null"
          THEN /\ loopPc' = "exited"
               /\ UNCHANGED <<deltaTMinMinutes, deltaTMaxMinutes>>
          ELSE /\ deltaTMinMinutes' = DeltaTMin(envMin)
               /\ deltaTMaxMinutes' = DeltaTMax(envMax)
               /\ loopPc' = IF IntervalValid(DeltaTMin(envMin), DeltaTMax(envMax))
                            THEN "start1" ELSE "exited"
    /\ UNCHANGED <<cycleVars, invocations, bots, questions, waitTimeMs, startResult>>
    /\ UNCHANGED storeVars

\* Lines 66-73: the start() of an identity returns or throws; after the
\* second, main exits if none has started.
StartReturns ==
    /\ UNCHANGED clientVars
    /\ loopPc \in {"start1", "start2"}
    /\ \E b \in {IF loopPc = "start1" THEN "bot1" ELSE "bot2"} :
       \E result \in {"returned", "threw"} :
       \E started \in {IF result = "returned" THEN bots \cup {b} ELSE bots} :
          /\ startResult' = [startResult EXCEPT ![b] = result]
          /\ bots' = started
          /\ loopPc' = IF b = "bot1" THEN "start2" ELSE AfterStarts(started)
    /\ UNCHANGED <<cycleVars, invocations, questions, waitTimeMs, deltaTMinMinutes,
                   deltaTMaxMinutes>>
    /\ UNCHANGED storeVars

\* Lines 75-82: loadQuestions returns, the store is constructed and the
\* first refill is awaited.
QuestionsLoaded ==
    /\ UNCHANGED clientVars
    /\ loopPc = "loadQuestions"
    /\ questions' \in QuestionSets
    /\ loopPc' = "firstRefill"
    /\ UNCHANGED <<cycleVars, invocations, bots, waitTimeMs, startResult,
                   deltaTMinMinutes, deltaTMaxMinutes>>
    /\ UNCHANGED storeVars

\* Lines 82-91 and 162, 95-102: the first refill returns, the periodic refill
\* is armed and questionLoop is called, which chooses its wait.
FirstRefillReturns ==
    /\ UNCHANGED clientVars
    /\ loopPc = "firstRefill"
    /\ \E newAddresses \in BoostedLists :
          contractAddresses' = AddLoop(contractAddresses, newAddresses, 0).store
    /\ waitTimeMs' \in Waits
    /\ loopPc' = "wait"
    /\ active' = active + 1
    /\ UNCHANGED <<cycleVars, pending, bots, questions, startResult,
                   deltaTMinMinutes, deltaTMaxMinutes>>
    /\ UNCHANGED <<currentIndex, storeFile, fileWrites, load, ret, issued, offered, early,
                   writeFailed, pass, script>>

(***************************************************************************)
(* questionLoop of index.ts                                                *)
(***************************************************************************)

\* The state the loop starts in: main has started at least one identity,
\* loaded the questions, built the store and awaited the first refill.
InitLoop ==
    /\ useDexScreenerNext = FALSE
    /\ loopPc = "wait"
    /\ tokenInfo = NoSubject
    /\ question = "null"
    /\ bots \in (SUBSET BotKeys) \ {{}}
    /\ questions \in QuestionSets
    /\ cycle = 0
    /\ toggles = 0
    /\ firstSource = "none"
    /\ lastOutcome = "none"
    /\ \E pair \in ValidIntervals :
          /\ deltaTMinMinutes = pair[1]
          /\ deltaTMaxMinutes = pair[2]
    /\ waitTimeMs \in Waits
    /\ startResult = [b \in BotKeys |-> IF b \in bots THEN "returned" ELSE "threw"]
    /\ consulted = <<>>
    /\ selectedBot = NoBot
    /\ sendCalls = 0
    /\ refills = 0
    /\ active = 1
    /\ pending = 0
    /\ \E newAddresses \in BoostedLists :
          contractAddresses = AddLoop(<<>>, newAddresses, 0).store
    /\ currentIndex = 0
    /\ storeFile = Untracked
    /\ fileWrites = {}
    /\ load = [st |-> "done", data |-> <<>>]
    /\ ret = NoCall
    /\ issued = 0
    /\ offered = NoCall
    /\ early = 0
    /\ writeFailed = FALSE
    /\ pass = <<>>
    /\ script = Off

storeGhosts == <<storeFile, fileWrites, load, ret, issued, offered, early, writeFailed,
                 pass, script>>

\* What main has set before the loop runs.
mainVars == <<bots, questions, deltaTMinMinutes, deltaTMaxMinutes, startResult>>

\* Where the body of a cycle leaves the loop, however it ended: the finally
\* block has called setImmediate(questionLoop).
AfterBodyInTry(outcome) ==
    IF outcome \in {"selectionThrew", "renderThrew", "sendThrew"}
    THEN "stopped" ELSE "immediate"

AfterBody(outcome) == "immediate"

\* Lines 157-159: the setImmediate calls an invocation makes as it ends, one
\* in the finally block and none anywhere else.
ScheduledAlsoInTry(outcome) == IF outcome = "sent" THEN 2 ELSE 1

Scheduled(outcome) == 1

\* The invocation in progress ends: its finally block has run.
BodyEnds(outcome) ==
    /\ active' = active - 1
    /\ pending' = pending + Scheduled(outcome)

\* A source was consulted and yielded an identifier, or none.
Consulted(source, yielded) == [source |-> source, yielded |-> yielded]

\* Lines 110-112 and 135-137: the subject an address of the store makes.
SubjectOfNone(address) == NoSubject

SubjectOf(address) == IF address # Null THEN "address" ELSE NoSubject

\* The test of line 147.
ShouldSendUnrendered(q, identities) == q # "throws" /\ identities # {}

ShouldSend(q, identities) == q \notin {"null", "throws"} /\ identities # {}

\* Lines 141-153 and the catch and finally blocks: the flag is toggled, the
\* question is rendered and, if there is one, sent through a random identity;
\* the catch block logs what is thrown.  toggled is FALSE when an exception
\* left the try block before line 142.
Finish(info, toggled) ==
    /\ tokenInfo' = info
    /\ useDexScreenerNext' = IF toggled THEN ~useDexScreenerNext ELSE useDexScreenerNext
    /\ toggles' = IF toggled THEN toggles + 1 ELSE toggles
    /\ IF ~toggled
       THEN /\ question' = "null"
            /\ lastOutcome' = "selectionThrew"
            /\ loopPc' = AfterBody("selectionThrew")
            /\ BodyEnds("selectionThrew")
            /\ UNCHANGED <<selectedBot, sendCalls>>
       ELSE \E randomCategory \in (IF DOMAIN questions = {} THEN {"none"} ELSE DOMAIN questions) :
            \E redrawn \in Redraws(questions, info) :
            \E q \in {GetFormattedQuestion(questions, info, randomCategory, redrawn)} :
               /\ question' = q
               /\ IF ShouldSend(q, bots)
                  THEN /\ selectedBot' \in bots
                       /\ sendCalls' = sendCalls + 1
                       /\ loopPc' = "send"
                       /\ UNCHANGED <<lastOutcome, invocations>>
                  ELSE \E outcome \in {IF q = "throws" THEN "renderThrew" ELSE "noQuestion"} :
                       /\ lastOutcome' = outcome
                       /\ loopPc' = AfterBody(outcome)
                       /\ BodyEnds(outcome)
                       /\ UNCHANGED <<selectedBot, sendCalls>>
    /\ UNCHANGED <<cycle, mainVars>>

\* The market-data fetch of the cycle's fallback to CoinGecko, from line 116.
AwaitFallback ==
    /\ loopPc' = "cgFallback"
    /\ UNCHANGED <<useDexScreenerNext, tokenInfo, question, cycle, toggles,
                   lastOutcome, selectedBot, sendCalls, invocations, mainVars>>

\* The wait of line 102 ends: lines 104-110 and 125-126.
TimerFires ==
    /\ UNCHANGED clientVars
    /\ loopPc = "wait"
    /\ waitTimeMs' = NoTimer
    /\ firstSource' = IF useDexScreenerNext THEN "store" ELSE "fetch"
    /\ IF useDexScreenerNext
       THEN \E got \in {NextAddress(contractAddresses, currentIndex)} :
              /\ currentIndex' = got.currentIndex
              /\ consulted' = Append(consulted, Consulted("store", got.address # Null))
              /\ IF got.address = Null /\ Len(contractAddresses) < MIN_STORE_THRESHOLD
                 THEN /\ loopPc' = "refill"
                      /\ UNCHANGED <<useDexScreenerNext, tokenInfo, question, cycle,
                                     toggles, lastOutcome, selectedBot, sendCalls,
                                     invocations, mainVars>>
                 ELSE IF got.address # Null
                      THEN Finish(SubjectOf(got.address), TRUE)
                      ELSE AwaitFallback
       ELSE /\ loopPc' = "cg"
            /\ UNCHANGED <<currentIndex, useDexScreenerNext, tokenInfo, question,
                           cycle, toggles, lastOutcome, consulted, selectedBot,
                           sendCalls, invocations, mainVars>>
    /\ UNCHANGED <<contractAddresses, refills, storeGhosts>>

\* The refill awaited at line 108 returns: lines 82-87 and 109-118.
RefillReturns ==
    /\ UNCHANGED clientVars
    /\ loopPc = "refill"
    /\ \E newAddresses \in BoostedLists :
       \E store2 \in {AddLoop(contractAddresses, newAddresses, 0).store} :
       \E got \in {NextAddress(store2, currentIndex)} :
          /\ contractAddresses' = store2
          /\ refills' = refills + 1
          /\ currentIndex' = got.currentIndex
          /\ consulted' = Append(consulted, Consulted("store", got.address # Null))
          /\ IF got.address # Null
             THEN Finish(SubjectOf(got.address), TRUE)
             ELSE AwaitFallback
    /\ UNCHANGED <<firstSource, waitTimeMs, storeGhosts>>

\* getTrendingCoinGeckoSymbols returns to line 118 or line 126: lines 119-139.
\* An exception leaving it would leave the try block for the catch block.
TrendingReturns ==
    /\ UNCHANGED clientVars
    /\ loopPc \in {"cg", "cgFallback"}
    /\ \E outcome \in FetchOutcomes :
       \E cgSymbols \in {Trending(outcome)} :
       \E fetched \in {Append(consulted, Consulted("fetch", cgSymbols = "symbols"))} :
          IF cgSymbols = "throws"
          THEN Finish(NoSubject, FALSE) /\ UNCHANGED currentIndex /\ consulted' = fetched
          ELSE IF cgSymbols = "symbols"
          THEN Finish("ticker", TRUE) /\ UNCHANGED currentIndex /\ consulted' = fetched
          ELSE IF loopPc = "cgFallback"
          THEN Finish(NoSubject, TRUE) /\ UNCHANGED currentIndex /\ consulted' = fetched
          ELSE \E got \in {NextAddress(contractAddresses, currentIndex)} :
                 /\ currentIndex' = got.currentIndex
                 /\ consulted' = Append(fetched, Consulted("store", got.address # Null))
                 /\ Finish(SubjectOf(got.address), TRUE)
    /\ UNCHANGED <<firstSource, waitTimeMs, refills, contractAddresses, storeGhosts>>

\* sendMessage, awaited at line 150, returns or throws; the catch block logs
\* what it throws.
SendReturns ==
    /\ UNCHANGED clientVars
    /\ loopPc = "send"
    /\ \E outcome \in {"sent", "sendThrew"} :
          /\ lastOutcome' = outcome
          /\ loopPc' = AfterBody(outcome)
          /\ BodyEnds(outcome)
    /\ UNCHANGED <<useDexScreenerNext, tokenInfo, question, cycle, toggles,
                   firstSource, waitTimeMs, consulted, selectedBot, sendCalls,
                   refills, mainVars>>
    /\ UNCHANGED storeVars

\* The setImmediate callback of line 158 runs questionLoop: lines 95-102.
NextCycle ==
    /\ UNCHANGED clientVars
    /\ loopPc = "immediate"
    /\ pending > 0
    /\ pending' = pending - 1
    /\ active' = active + 1
    /\ loopPc' = "wait"
    /\ waitTimeMs' \in Waits
    /\ tokenInfo' = NoSubject
    /\ question' = "null"
    /\ cycle' = IF cycle < MaxCycles THEN cycle + 1 ELSE cycle
    /\ toggles' = 0
    /\ firstSource' = "none"
    /\ consulted' = <<>>
    /\ selectedBot' = NoBot
    /\ sendCalls' = 0
    /\ refills' = 0
    /\ UNCHANGED <<useDexScreenerNext, lastOutcome, mainVars>>
    /\ UNCHANGED storeVars

\* The setInterval of line 91 runs refreshDexScreenerTokens and its fetch
\* returns: lines 82-87.
PeriodicRefill ==
    /\ UNCHANGED clientVars
    /\ loopPc \notin StartupPcs
    /\ \E newAddresses \in BoostedLists :
          contractAddresses' = AddLoop(contractAddresses, newAddresses, 0).store
    /\ UNCHANGED <<currentIndex, storeGhosts, loopVars>>

LoopStep == TimerFires \/ RefillReturns \/ TrendingReturns \/ SendReturns \/ NextCycle

NextLoop ==
    \/ TimerFires
    \/ RefillReturns
    \/ TrendingReturns
    \/ SendReturns
    \/ NextCycle
    \/ PeriodicRefill

\* The loop and the store it reads, the credential managers idle.
InitLoopAlone == InitLoop /\ ClientIdle

SpecLoop == InitLoopAlone /\ [][NextLoop]_vars

\* The timer of the wait and the calls the loop awaits return.
SpecLoopFair == SpecLoop /\ WF_vars(LoopStep)

\* main from its call on, and the loop it starts.
NextMain ==
    \/ MainStarts
    \/ StartReturns
    \/ QuestionsLoaded
    \/ FirstRefillReturns
    \/ TimerFires
    \/ RefillReturns
    \/ TrendingReturns
    \/ SendReturns
    \/ NextCycle
    \/ PeriodicRefill

InitMainAlone == InitMain /\ ClientIdle

SpecMain == InitMainAlone /\ [][NextMain]_vars

(***************************************************************************)
(* Claims about the posting loop.                                          *)
(***************************************************************************)

\* C7: the loop never stops: every counted cycle is followed by the next one,
\* and the loop comes back to its wait again and again, also after a cycle
\* whose rendering or sending failed (checked under SpecLoopFair: the wait
\* timer and the awaited calls return).
LoopNeverStops ==
    /\ \A n \in 0..(MaxCycles - 1) : (cycle = n) ~> (cycle = n + 1)
    /\ []<>(loopPc = "wait")
    /\ [](lastOutcome \in {"renderThrew", "sendThrew", "noQuestion"} => <>(loopPc = "wait"))

\* A cycle began after one in which sendMessage threw.
CycleAfterFailedSend ==
    /\ lastOutcome = "sendThrew"
    /\ loopPc = "wait"
    /\ cycle >= 1

\* C8: every cycle toggles the flag exactly once, however it ended, so that
\* from FALSE the cycles consult the on-demand fetch first and the store
\* first in turn.
TogglesOncePerCycle ==
    /\ toggles <= 1
    /\ loopPc = "immediate" => toggles = 1
    /\ (cycle < MaxCycles /\ firstSource # "none") =>
          firstSource = IF cycle % 2 = 0 THEN "fetch" ELSE "store"
    /\ (cycle < MaxCycles /\ loopPc = "wait") =>
          useDexScreenerNext = (cycle % 2 = 1)

\* The second cycle consulted the store first, after a first cycle that sent
\* nothing, and has ended without a question.
SecondCycleStoreFirst ==
    /\ cycle = 1
    /\ firstSource = "store"
    /\ loopPc = "immediate"
    /\ question \in {"null", "throws"}

Consultations(source) ==
    Cardinality({i \in DOMAIN consulted : consulted[i].source = source})
Yielded(source) ==
    \E i \in DOMAIN consulted : consulted[i].source = source /\ consulted[i].yielded
Other(source) == IF source = "store" THEN "fetch" ELSE "store"

\* C14: a cycle consults first the source the flag names; when it comes to
\* the rendering step, it has consulted the other source exactly once if the
\* first yielded no identifier and not at all if the first yielded one, and
\* it has no subject only if the fetch and the store both yielded nothing.
FallsBackOnce ==
    /\ consulted # <<>> => consulted[1].source = firstSource
    /\ firstSource # "none" => Consultations(Other(firstSource)) <= 1
    /\ (toggles = 1 /\ loopPc \in {"send", "immediate"}) =>
          /\ firstSource # "none"
          /\ Consultations(firstSource) >= 1
          /\ Consultations(Other(firstSource)) =
                IF Yielded(firstSource) THEN 0 ELSE 1
          /\ tokenInfo = NoSubject =>
                /\ ~Yielded("store") /\ ~Yielded("fetch")
                /\ Consultations("fetch") = 1
                /\ Consultations("store") >= 1

\* A cycle that consulted the store first, refilled it, found it empty again
\* and got nothing from the fetch has ended without a subject.
BothSourcesEmpty ==
    /\ loopPc = "immediate"
    /\ firstSource = "store"
    /\ tokenInfo = NoSubject
    /\ Len(consulted) = 3
    /\ consulted[3] = Consulted("fetch", FALSE)

\* C15: a cycle makes at most one sendMessage call; when it has come past the
\* rendering step it has made one exactly if a question was rendered, and
\* the call is made on one identity, whose start() returned.  (A message is
\* posted by the loop when the loop hands it to sendMessage.)
OnePostPerCycle ==
    /\ sendCalls <= 1
    /\ (sendCalls = 0) <=> (selectedBot = NoBot)
    /\ loopPc = "send" => sendCalls = 1
    /\ (toggles = 1 /\ loopPc \in {"send", "immediate"}) =>
          ((sendCalls = 1) <=> (question \notin {"null", "throws"}))
    /\ selectedBot # NoBot =>
          /\ selectedBot \in bots
          /\ startResult[selectedBot] = "returned"

\* A cycle has sent its question through the first of two started identities.
PostedThroughOne ==
    /\ loopPc = "immediate"
    /\ lastOutcome = "sent"
    /\ sendCalls = 1
    /\ selectedBot = "bot1"
    /\ bots = BotKeys

\* C18: the loop runs only with an identity whose start() returned, and sends
\* only through such identities; when both start() calls have thrown, main
\* has exited with no question loaded, no refill made, no timer of the loop
\* pending and no cycle run, and nothing runs after the exit.
LoopNeedsAnIdentity ==
    /\ [](/\ bots = {b \in BotKeys : startResult[b] = "returned"}
          /\ loopPc \notin (StartupPcs \ {"loadQuestions", "firstRefill"}) => bots # {}
          /\ selectedBot # NoBot => startResult[selectedBot] = "returned"
          /\ (\A b \in BotKeys : startResult[b] = "threw") =>
                /\ loopPc = "exited"
                /\ questions = <<>> /\ contractAddresses = <<>>
                /\ waitTimeMs = NoTimer
                /\ cycle = 0 /\ firstSource = "none")
    /\ [][loopPc # "exited"]_vars

\* The first identity failed to start and a cycle sends through the second.
PostsThroughTheOther ==
    /\ startResult["bot1"] = "threw"
    /\ loopPc = "send"
    /\ selectedBot = "bot2"

\* The cycle has come to the rendering step, or past it.
Rendering == toggles = 1 /\ loopPc \in {"send", "immediate"}

\* The first read of the store this cycle made found nothing.
StoreReadEmpty ==
    \E i \in DOMAIN consulted :
        /\ consulted[i] = Consulted("store", FALSE)
        /\ \A j \in 1..(i - 1) : consulted[j].source # "store"

\* C24: when a cycle has read the store, as its first source or as the
\* fallback, and the read found nothing, the cycle has awaited exactly one
\* refill and read the store exactly once more by the time it goes on to the
\* other source or to the rendering step.
RefillsWhenStoreEmpty ==
    (StoreReadEmpty /\ (loopPc = "cgFallback" \/ Rendering)) =>
        /\ refills = 1
        /\ Consultations("store") = 2

\* C25: a cycle with no subject either sends a question of a category that
\* requires no token, or renders no question and makes no sendMessage call,
\* the latter only when every loaded category requires a token or none is
\* loaded.
NoSubjectOutcomes ==
    (Rendering /\ tokenInfo = NoSubject) =>
        \/ /\ question \in DOMAIN questions \ categoriesRequiringToken
           /\ sendCalls = 1
        \/ /\ DOMAIN questions \subseteq categoriesRequiringToken
           /\ question = "null"
           /\ sendCalls = 0

\* C25, as the code has it: a cycle with no subject sends a question of a
\* category that requires no token, whose list holds templates; or it sends
\* nothing, because every loaded category requires a token (or none is
\* loaded) and no question is rendered, or because the category drawn among
\* those requiring no token holds no template that can be rendered.  A
\* question of a category requiring a token is never rendered.
NoSubjectOutcomesOfDraw ==
    (Rendering /\ tokenInfo = NoSubject) =>
        /\ question \notin categoriesRequiringToken
        /\ \/ /\ question \in DOMAIN questions \ categoriesRequiringToken
              /\ questions[question] = "templates"
              /\ sendCalls = 1
           \/ /\ DOMAIN questions \subseteq categoriesRequiringToken
              /\ question = "null"
              /\ sendCalls = 0
           \/ /\ \E c \in DOMAIN questions \ categoriesRequiringToken :
                    questions[c] \in {"empty", "malformed"}
              /\ question \in {"null", "throws"}
              /\ sendCalls = 0

\* A cycle with no subject sends a general question although a category
\* requiring a token is loaded too.
GeneralQuestionWithoutSubject ==
    /\ loopPc = "send"
    /\ toggles = 1
    /\ tokenInfo = NoSubject
    /\ ~Yielded("store") /\ ~Yielded("fetch")
    /\ DOMAIN questions = Categories
    /\ question = "GENERAL_AGENT_QUERIES"

\* C26: at most one invocation of questionLoop is in progress, and from the
\* first one on exactly one is in progress or scheduled; an invocation is
\* scheduled only in a step in which the one in progress ends, and the flag
\* changes only while one invocation is in progress.
OneCycleAtATime ==
    /\ [](/\ active \in {0, 1}
          /\ pending \in {0, 1}
          /\ loopPc \in {"wait", "refill", "cg", "cgFallback", "send"} <=> active = 1
          /\ loopPc = "immediate" <=> pending = 1
          /\ active + pending <= 1)
    /\ [][pending' > pending => (active = 1 /\ active' = 0)]_vars
    /\ [][useDexScreenerNext' # useDexScreenerNext => (active = 1 /\ pending = 0)]_vars

\* The second invocation is in progress, the first having ended by sending.
SecondInvocationRunning ==
    /\ cycle = 1
    /\ lastOutcome = "sent"
    /\ loopPc = "refill"
    /\ active = 1
    /\ pending = 0

(***************************************************************************)
(* TwitchClient                                                            *)
(*                                                                         *)
(* A chain of calls is a stack of the calls in progress, innermost first,  *)
(* each a frame naming the await the call is suspended at.  The innermost  *)
(* call awaits the network or the file system; a step of the model is the  *)
(* completion of that await together with everything the chain then runs   *)
(* up to its next await.  A frame also counts what has happened during its *)
(* call, and a call that ends leaves a summary of it in the step's output. *)
(***************************************************************************)

\* The access tokens, refresh tokens and user identifiers of the provider;
\* 0 stands for the empty string and for a field a response lacks.
Tokens == {2}
NewRefreshTokens == {2}
UserIds == {1, 2}

\* What the token endpoint answers (lines 96-102) and what the validation
\* endpoint answers (lines 133-152); "rejected" is a fetch that rejects or a
\* body that does not parse.
RefreshResponses ==
    {[status |-> st, access_token |-> a, refresh_token |-> r] :
        st \in {"ok", "notOk"}, a \in {0} \cup Tokens, r \in {0} \cup NewRefreshTokens}
    \cup {[status |-> "rejected", access_token |-> 0, refresh_token |-> 0]}

ValidateResponses ==
    {[status |-> "ok", user_id |-> u] : u \in UserIds}
    \cup {[status |-> st, user_id |-> 0] : st \in {"notOk", "rejected"}}

\* A frame: the await of the call, and during the call so far the writeFile
\* calls issued (w), the refreshToken calls made (r), the validation answers
\* that were not a success (x), the readFile and writeFile calls that failed
\* (f), the entry last written (e) and a value of the call's own (v): for start and the timer callbacks the access token
\* they began with, for refreshToken the answer, for validateToken the
\* identifier answered and the one configured, for persistTokens whether
\* its readFile gave it the document.
Frame(at, v) ==
    [at |-> at, w |-> 0, r |-> 0, x |-> 0, f |-> 0, e |-> Null, v |-> v]

Enter(m, at, v) == [m EXCEPT !.stack = <<Frame(at, v)>> \o @]

Move(m, at) == [m EXCEPT !.stack[1].at = at]

Keep(m, v) == [m EXCEPT !.stack[1].v = v]

\* Every call in progress counts one more of what f counts.
Counted(m, f) ==
    [m EXCEPT !.stack = [i \in DOMAIN m.stack |->
                            [m.stack[i] EXCEPT ![f] = m.stack[i][f] + 1]]]

\* Every call in progress has entry as the last one written during it.
Written(m, entry) ==
    [m EXCEPT !.stack = [i \in DOMAIN m.stack |-> [m.stack[i] EXCEPT !.e = entry]]]

\* The innermost call ends.
Leave(m, fn, res) ==
    [m EXCEPT !.stack = Tail(@),
              !.out = Append(@, [fn |-> fn, res |-> res, key |-> m.key,
                                 w |-> Head(m.stack).w, r |-> Head(m.stack).r,
                                 x |-> Head(m.stack).x, f |-> Head(m.stack).f,
                                 e |-> Head(m.stack).e,
                                 v |-> Head(m.stack).v])]

\* The chain t of identity b, with the fields of the identity it runs on.
Chain(b, t) == client[b] @@ task[b][t] @@ [key |-> b, out |-> <<>>]

\* refreshToken up to its fetch, called by the call that then awaits it at
\* from: lines 87-100.
CallRefreshToken(m, from) ==
    Enter(Counted(Move(m, from), "r"), "refresh.fetch", 0)

\* persistTokens up to its readFile: line 173.
CallPersistTokens(m, from) == Enter(Move(m, from), "persist.read", FALSE)

\* validateToken up to its first await: lines 126-135.
CallValidateToken(m, from) ==
    IF m.token = 0
    THEN CallRefreshToken(Enter(Move(m, from), "validate.fetch", 0), "validate.refresh0")
    ELSE Enter(Move(m, from), "validate.fetch", 0)

\* The test of line 104.
RefreshSucceedsStatusOnly(resp) == resp.status = "ok"

RefreshSucceeds(resp) == resp.status = "ok" /\ resp.access_token # 0

\* The assignments of lines 110-113.
AssignTokensAlways(m, resp) ==
    [m EXCEPT !.token = resp.access_token, !.refreshToken = resp.refresh_token]

AssignTokens(m, resp) ==
    [m EXCEPT !.token = resp.access_token,
              !.refreshToken = IF resp.refresh_token # 0 THEN resp.refresh_token ELSE @]

\* The entry persistTokens writes for its identity: lines 177-182.
Modified(entry, m) ==
    IF entry.clientId = m.key
    THEN [entry EXCEPT !.refreshToken = m.refreshToken, !.oauthToken = m.token,
                       !.botUserId = m.userId]
    ELSE entry

\* Whether start goes on to arm the two timers: lines 66-68.
ArmsTimersAlways(res) == TRUE

ArmsTimers(res) == res = "returns"

\* A call has returned or thrown to the call that awaits it, which runs on
\* to its next await or ends in turn.
RECURSIVE Return(_, _)
Return(m, res) ==
    IF m.stack = <<>>
    THEN [m EXCEPT !.result = res]
    ELSE LET at == Head(m.stack).at
         IN  CASE at = "refresh.persist" ->            \* line 115
                    Return(Leave(m, "refreshToken", "returns"), "returns")
               [] at = "validate.refresh0" ->          \* line 129
                    IF res = "throws"
                    THEN Return(Leave(m, "validateToken", "throws"), "throws")
                    ELSE Move(m, "validate.fetch")
               [] at = "validate.refresh1" ->          \* lines 141-145
                    IF res = "throws"
                    THEN Return(Leave(m, "validateToken", "throws"), "throws")
                    ELSE Move(m, "validate.fetch2")
               [] at = "validate.persist" ->           \* line 160
                    Return(Leave(m, "validateToken", "returns"), "returns")
               [] at = "ensure.refresh" ->             \* lines 78-80
                    IF res = "throws"
                    THEN Return(Leave(m, "ensureToken", "throws"), "throws")
                    ELSE CallValidateToken(m, "ensure.validate")
               [] at = "ensure.validate" ->            \* line 80
                    Return(Leave(m, "ensureToken", res), res)
               [] at = "start.ensure" ->               \* lines 66-69
                    Return(Leave([m EXCEPT !.timers = ArmsTimers(res)], "start", res), res)
               [] at = "send.validate" ->              \* lines 198-213
                    IF res = "throws"
                    THEN Return(Leave(m, "sendMessage", "throws"), "throws")
                    ELSE IF m.userId = 0
                         THEN Return(Leave(m, "sendMessage", "returns"), "returns")
                         ELSE Move(m, "send.fetch")
               [] at = "refreshTimer.refresh" ->       \* lines 243-245
                    Return(Leave(m, "refreshTimer", "returns"), "returns")
               [] at = "validationTimer.validate" ->   \* lines 257-261
                    IF res = "throws"
                    THEN CallRefreshToken(m, "validationTimer.refresh")
                    ELSE Return(Leave(m, "validationTimer", "returns"), "returns")
               [] at = "validationTimer.refresh" ->    \* lines 261-265
                    IF res = "throws"
                    THEN Return(Leave(m, "validationTimer", "returns"), "returns")
                    ELSE CallValidateToken(m, "validationTimer.validate2")
               [] at = "validationTimer.validate2" ->  \* lines 262-265
                    Return(Leave(m, "validationTimer", "returns"), "returns")

\* refreshToken from the answer of the token endpoint: lines 102-119.
RefreshTokenAfterFetch(m, resp) ==
    IF RefreshSucceeds(resp)
    THEN CallPersistTokens(AssignTokens(Keep(m, resp), resp), "refresh.persist")
    ELSE Return(Leave(m, "refreshToken", "throws"), "throws")

\* Lines 150-161: the identifier is taken from the answer and compared with
\* the configured one.
IdentifiedAlwaysPersists(m, user_id) ==
    CallPersistTokens(
        [Keep(m, [user_id |-> user_id, botUserId |-> m.botUserId])
            EXCEPT !.userId = user_id, !.botUserId = user_id],
        "validate.persist")

Identified(m, user_id) ==
    IF m.botUserId # user_id
    THEN CallPersistTokens(
             [Keep(m, [user_id |-> user_id, botUserId |-> m.botUserId])
                 EXCEPT !.userId = user_id, !.botUserId = user_id],
             "validate.persist")
    ELSE Return(Leave([Keep(m, [user_id |-> user_id, botUserId |-> m.botUserId])
                          EXCEPT !.userId = user_id],
                      "validateToken", "returns"), "returns")

\* validateToken from the answer to its first request: lines 137-154.
ValidateTokenAfterFetch(m, resp) ==
    CASE resp.status = "rejected" ->
           Return(Leave(m, "validateToken", "throws"), "throws")
      [] resp.status = "notOk" ->
           CallRefreshToken(Counted(m, "x"), "validate.refresh1")
      [] resp.status = "ok" ->
           Identified(m, resp.user_id)

\* validateToken from the answer to its second request: lines 146-150.
ValidateTokenAfterFetch2DropsToken(m, resp) ==
    IF resp.status = "ok"
    THEN Identified(m, resp.user_id)
    ELSE Return(Leave([m EXCEPT !.token = 0], "validateToken", "throws"), "throws")

ValidateTokenAfterFetch2(m, resp) ==
    IF resp.status = "ok"
    THEN Identified(m, resp.user_id)
    ELSE Return(Leave(m, "validateToken", "throws"), "throws")

\* persistTokens from the outcome of readFile: lines 173-184 and 186-188.
PersistTokensAfterReadUncaught(m, readOk, document) ==
    IF readOk
    THEN LET cfgDisk == [document EXCEPT ![m.key] = Modified(@, m)]
         IN  Move(Written(Counted(Keep([m EXCEPT !.cfgDisk = cfgDisk], TRUE), "w"),
                          cfgDisk[m.key]),
                  "persist.write")
    ELSE Return(Leave(Counted(m, "f"), "persistTokens", "throws"), "throws")

PersistTokensAfterRead(m, readOk, document) ==
    IF readOk
    THEN LET cfgDisk == [document EXCEPT ![m.key] = Modified(@, m)]
         IN  Move(Written(Counted(Keep([m EXCEPT !.cfgDisk = cfgDisk], TRUE), "w"),
                          cfgDisk[m.key]),
                  "persist.write")
    ELSE Return(Leave(Counted(m, "f"), "persistTokens", "returns"), "returns")

\* persistTokens from the outcome of writeFile: lines 184-188.
PersistTokensAfterWrite(m, writeOk) ==
    Return(Leave([(IF writeOk THEN m ELSE Counted(m, "f")) EXCEPT !.cfgDisk = Null],
                 "persistTokens", "returns"),
           "returns")

\* sendMessage from the outcome of its request: lines 223-233.
SendMessageAfterFetch(m, sent) ==
    Return(Leave(m, "sendMessage", "returns"), "returns")

\* start up to its first await: lines 65-66 and 76-80.
StartThenReturnsAt(m) ==
    LET m1 == Enter(Enter([m EXCEPT !.result = "none"], "start.ensure", m.token),
                    "ensure.validate", 0)
    IN  IF m1.token = 0
        THEN CallRefreshToken(m1, "ensure.refresh")
        ELSE CallValidateToken(m1, "ensure.validate")

\* sendMessage up to its first await: lines 196-221.
SendMessageThenReturnsAt(m) ==
    LET m1 == Enter([m EXCEPT !.result = "none"], "send.fetch", m.userId)
    IN  IF m1.userId = 0
        THEN CallValidateToken(m1, "send.validate")
        ELSE m1

\* The callbacks of the two timers up to their first await: lines 243, 257.
RefreshTimerThenReturnsAt(m) ==
    CallRefreshToken(Enter(m, "refreshTimer.refresh", m.token), "refreshTimer.refresh")

ValidationTimerThenReturnsAt(m) ==
    CallValidateToken(Enter(m, "validationTimer.validate", m.token),
                      "validationTimer.validate")

\* The chain leaves its fields to its identity and to itself, and the
\* summaries of the calls that ended in the step to ended.
Resume(b, t, m2) ==
    /\ client' = [client EXCEPT ![b] = [f \in DOMAIN @ |-> m2[f]]]
    /\ task' = [task EXCEPT ![b][t] = [f \in DOMAIN @ |-> m2[f]]]
    /\ ended' = m2.out

\* The store while only the credential managers are looked at.
StoreIdle ==
    /\ contractAddresses = <<>>
    /\ currentIndex = 0
    /\ storeFile = Untracked
    /\ fileWrites = {}
    /\ load = [st |-> "done", data |-> <<>>]
    /\ ret = NoCall
    /\ issued = 0
    /\ offered = NoCall
    /\ early = 0
    /\ writeFailed = FALSE
    /\ pass = <<>>
    /\ script = Off

\* One identity as its constructor leaves it, from a configuration with or
\* without an access token and an own-user identifier; the document may have
\* been edited since it was loaded, so that its client id is another one.
InitClient ==
    /\ \E clientId \in {"bot1", "other"} : \E oauthToken, botUserId \in {0, 1} :
          /\ client = [b \in BotKeys |->
                          IF b = "bot1"
                          THEN Constructed(Entry(b, 1, oauthToken, botUserId))
                          ELSE Constructed(Entry(b, 1, 0, 0))]
          /\ configFile = [b \in BotKeys |->
                          IF b = "bot1"
                          THEN Entry(clientId, 1, oauthToken, botUserId)
                          ELSE Entry(b, 1, 0, 0)]
    /\ task = [b \in BotKeys |-> [t \in Tasks |-> IdleTask]]
    /\ calls = [b \in BotKeys |-> 0]
    /\ ended = <<>>

otherVars == <<storeVars, loopVars>>

\* The owner calls start(), once and before anything else: line 64.
Start(b) ==
    /\ task[b]["main"].stack = <<>>
    /\ task[b]["main"].result = "none"
    /\ \E m2 \in {StartThenReturnsAt(Chain(b, "main"))} : Resume(b, "main", m2)
    /\ UNCHANGED <<configFile, calls, otherVars>>

\* The owner calls sendMessage: line 195.
SendMessage(b) ==
    /\ task[b]["main"].stack = <<>>
    /\ calls[b] < MaxCalls
    /\ calls' = [calls EXCEPT ![b] = @ + 1]
    /\ \E m2 \in {SendMessageThenReturnsAt(Chain(b, "main"))} : Resume(b, "main", m2)
    /\ UNCHANGED <<configFile, otherVars>>

\* The refresh timer fires: lines 242-246.
RefreshTimerFires(b) ==
    /\ client[b].timers
    /\ task[b]["refreshTimer"].stack = <<>>
    /\ calls[b] < MaxCalls
    /\ calls' = [calls EXCEPT ![b] = @ + 1]
    /\ \E m2 \in {RefreshTimerThenReturnsAt(Chain(b, "refreshTimer"))} :
          Resume(b, "refreshTimer", m2)
    /\ UNCHANGED <<configFile, otherVars>>

\* The validation timer fires: lines 256-267.
ValidationTimerFires(b) ==
    /\ client[b].timers
    /\ task[b]["validationTimer"].stack = <<>>
    /\ calls[b] < MaxCalls
    /\ calls' = [calls EXCEPT ![b] = @ + 1]
    /\ \E m2 \in {ValidationTimerThenReturnsAt(Chain(b, "validationTimer"))} :
          Resume(b, "validationTimer", m2)
    /\ UNCHANGED <<configFile, otherVars>>

Awaits(b, t, at) == task[b][t].stack # <<>> /\ Head(task[b][t].stack).at = at

\* The token endpoint answers a refreshToken call.
TokenEndpointAnswers(b, t) ==
    /\ Awaits(b, t, "refresh.fetch")
    /\ \E resp \in RefreshResponses :
       \E m2 \in {RefreshTokenAfterFetch(Chain(b, t), resp)} : Resume(b, t, m2)
    /\ UNCHANGED <<configFile, calls, otherVars>>

\* The validation endpoint answers the first request of a validateToken call.
ValidationAnswers(b, t) ==
    /\ Awaits(b, t, "validate.fetch")
    /\ \E resp \in ValidateResponses :
       \E m2 \in {ValidateTokenAfterFetch(Chain(b, t), resp)} : Resume(b, t, m2)
    /\ UNCHANGED <<configFile, calls, otherVars>>

\* The validation endpoint answers the request made after a refresh.
SecondValidationAnswers(b, t) ==
    /\ Awaits(b, t, "validate.fetch2")
    /\ \E resp \in ValidateResponses :
       \E m2 \in {ValidateTokenAfterFetch2(Chain(b, t), resp)} : Resume(b, t, m2)
    /\ UNCHANGED <<configFile, calls, otherVars>>

\* readFile of persistTokens returns the document, or fails.
ReadFileReturns(b, t) ==
    /\ Awaits(b, t, "persist.read")
    /\ \E readOk \in BOOLEAN :
       \E m2 \in {PersistTokensAfterRead(Chain(b, t), readOk, configFile)} :
          Resume(b, t, m2)
    /\ UNCHANGED <<configFile, calls, otherVars>>

\* writeFile of persistTokens replaces the document, or fails.
WriteFileReturns(b, t) ==
    /\ Awaits(b, t, "persist.write")
    /\ \E writeOk \in BOOLEAN :
          /\ configFile' = IF writeOk THEN task[b][t].cfgDisk ELSE configFile
          /\ \E m2 \in {PersistTokensAfterWrite(Chain(b, t), writeOk)} : Resume(b, t, m2)
    /\ UNCHANGED <<calls, otherVars>>

\* The chat endpoint answers a sendMessage call, or the request fails.
PostAnswers(b, t) ==
    /\ Awaits(b, t, "send.fetch")
    /\ \E sent \in BOOLEAN :
       \E m2 \in {SendMessageAfterFetch(Chain(b, t), sent)} : Resume(b, t, m2)
    /\ UNCHANGED <<configFile, calls, otherVars>>

NextClient ==
    \/ Start("bot1")
    \/ SendMessage("bot1")
    \/ RefreshTimerFires("bot1")
    \/ ValidationTimerFires("bot1")
    \/ \E t \in Tasks : TokenEndpointAnswers("bot1", t)
    \/ \E t \in Tasks : ValidationAnswers("bot1", t)
    \/ \E t \in Tasks : SecondValidationAnswers("bot1", t)
    \/ \E t \in Tasks : ReadFileReturns("bot1", t)
    \/ \E t \in Tasks : WriteFileReturns("bot1", t)
    \/ \E t \in Tasks : PostAnswers("bot1", t)

\* One credential manager alone, the store and the loop idle.
InitClientAlone == InitClient /\ StoreIdle /\ LoopIdle

SpecClient == InitClientAlone /\ [][NextClient]_vars

\* An identity after its start() has returned: it holds an access token and
\* its own-user identifier, and its timers are armed (lines 64-70).
Started(entry) == [Constructed(entry) EXCEPT !.timers = TRUE]

\* The two identities, started, and the document they were constructed
\* from; the client id of the first may have been edited since.
InitClients ==
    /\ client = [b \in BotKeys |-> Started(Entry(b, 1, 1, 1))]
    /\ \E clientId \in {"bot1", "other"} :
          configFile = [b \in BotKeys |->
                          Entry(IF b = "bot1" THEN clientId ELSE b, 1, 1, 1)]
    /\ task = [b \in BotKeys |-> [t \in Tasks |-> IdleTask]]
    /\ calls = [b \in BotKeys |-> 0]
    /\ ended = <<>>

\* The refresh timers of the two identities and the calls they make.
NextClients ==
    \/ \E b \in BotKeys : RefreshTimerFires(b)
    \/ \E b \in BotKeys : TokenEndpointAnswers(b, "refreshTimer")
    \/ \E b \in BotKeys : ReadFileReturns(b, "refreshTimer")
    \/ \E b \in BotKeys : WriteFileReturns(b, "refreshTimer")

InitClientsAlone == InitClients /\ StoreIdle /\ LoopIdle

SpecClients == InitClientsAlone /\ [][NextClients]_vars

\* The refresh-timer chain of an identity whose refresh timer has fired and
\* whose refreshToken call awaits the token endpoint: lines 242-243, 87-100.
RefreshTimerFired(b, identity) ==
    [f \in DOMAIN IdleTask |->
        RefreshTimerThenReturnsAt(identity @@ IdleTask @@ [key |-> b, out |-> <<>>])[f]]

\* The first identity, started, while the callback of its refresh timer is
\* in progress.
InitTimers ==
    /\ client = [b \in BotKeys |->
                    IF b = "bot1" THEN Started(Entry(b, 1, 1, 1))
                    ELSE Constructed(Entry(b, 1, 0, 0))]
    /\ configFile = [b \in BotKeys |->
                    IF b = "bot1" THEN Entry(b, 1, 1, 1) ELSE Entry(b, 1, 0, 0)]
    /\ task = [b \in BotKeys |-> [t \in Tasks |->
                    IF b = "bot1" /\ t = "refreshTimer"
                    THEN RefreshTimerFired(b, Started(Entry(b, 1, 1, 1)))
                    ELSE IdleTask]]
    /\ calls = [b \in BotKeys |-> 0]
    /\ ended = <<>>

\* The two timers of the first identity and the calls their callbacks make.
NextTimers ==
    \/ RefreshTimerFires("bot1")
    \/ ValidationTimerFires("bot1")
    \/ \E t \in Tasks : TokenEndpointAnswers("bot1", t)
    \/ ValidationAnswers("bot1", "validationTimer")
    \/ SecondValidationAnswers("bot1", "validationTimer")
    \/ \E t \in Tasks : ReadFileReturns("bot1", t)
    \/ \E t \in Tasks : WriteFileReturns("bot1", t)

InitTimersAlone == InitTimers /\ StoreIdle /\ LoopIdle

SpecTimers == InitTimersAlone /\ [][NextTimers]_vars

(***************************************************************************)
(* Claims about TwitchClient.                                              *)
(***************************************************************************)

Ended(fn, res) == {i \in DOMAIN ended : ended[i].fn = fn /\ ended[i].res = res}

\* The chain t of bot1 was awaiting at and has gone on in this step.
Answered(t, at) ==
    /\ Awaits("bot1", t, at)
    /\ task'["bot1"][t] # task["bot1"][t]

\* C4 as stated: a refreshToken call that got an access token performs
\* exactly one write of the credential document, and the entry written for
\* the identity holds the access token and the refresh token of the answer.
RefreshWritesNewValuesOnce ==
    \A i \in Ended("refreshToken", "returns") :
       /\ ended[i].w = 1
       /\ ended[i].e.oauthToken = ended[i].v.access_token
       /\ ended[i].v.refresh_token # 0 =>
             ended[i].e.refreshToken = ended[i].v.refresh_token

\* The assignments of a refreshToken call that got an access token.
RefreshAssigns ==
    \A t \in Tasks :
       (Answered(t, "refresh.fetch") /\ Awaits("bot1", t, "persist.read")') =>
          \E resp \in {task'["bot1"][t].stack[2].v} :
             /\ client'["bot1"].token = resp.access_token
             /\ client'["bot1"].refreshToken =
                   IF resp.refresh_token # 0 THEN resp.refresh_token
                   ELSE client["bot1"].refreshToken
             /\ client'["bot1"].userId = client["bot1"].userId

\* The entry a persistTokens call writes for its identity.
PersistWritesMemory ==
    \A t \in Tasks :
       (Answered(t, "persist.read") /\ Awaits("bot1", t, "persist.write")') =>
          task'["bot1"][t].cfgDisk["bot1"] =
             IF configFile["bot1"].clientId = "bot1"
             THEN Entry("bot1", client["bot1"].refreshToken, client["bot1"].token,
                        client["bot1"].userId)
             ELSE configFile["bot1"]

\* The persistTokens call that ended just before the call at i of ended did
\* issued one write if it read the document and none otherwise.
PersistedBefore(i) ==
    /\ i > 1
    /\ ended[i - 1].fn = "persistTokens"
    /\ ended[i - 1].w = IF ended[i - 1].v THEN 1 ELSE 0

\* C4, amended: a refreshToken call that got an access token sets the
\* in-memory access token to it, sets the in-memory refresh token to the
\* answered one if and only if there is one, and calls persistTokens once,
\* which issues one write of the credential document if it can read the
\* document and none otherwise; the entry written for the identity holds its
\* in-memory refresh token, access token and own-user identifier at the time
\* of the write if the document has the identity's client id, and is the
\* entry read otherwise.
RefreshPersistsOnce ==
    /\ [](\A i \in Ended("refreshToken", "returns") :
             /\ PersistedBefore(i)
             /\ ended[i].w = ended[i - 1].w)
    /\ [][RefreshAssigns /\ PersistWritesMemory]_vars

\* A refreshToken call that was given no refresh token has returned after
\* its one write, and the refresh token is the configured one.
RefreshedKeepingRefreshToken ==
    \E i \in Ended("refreshToken", "returns") :
       /\ ended[i].w = 1
       /\ ended[i].v.refresh_token = 0
       /\ client["bot1"].refreshToken = 1
       /\ client["bot1"].token = 2

\* A refreshToken call fails in this step.
RefreshFails == \E i \in DOMAIN ended' : ended'[i].fn = "refreshToken" /\ ended'[i].res = "throws"

\* C5: a refreshToken call whose answer is not a success or lacks an access
\* token throws to its caller, has issued no write, and its failing leaves
\* the access token, the refresh token, the own-user identifier and the
\* credential document as they were; a caller that does not catch (validateToken,
\* ensureToken) throws in turn.
FailedRefreshChangesNothing ==
    /\ [](\A i \in DOMAIN ended :
             ended[i].fn = "refreshToken" =>
                IF ended[i].res = "returns"
                THEN ended[i].v.status = "ok" /\ ended[i].v.access_token # 0
                ELSE /\ ended[i].w = 0
                     /\ ended[i].v = 0
                     /\ i < Len(ended) =>
                           (ended[i + 1].fn \in {"validateToken", "ensureToken"} =>
                               ended[i + 1].res = "throws"))
    /\ [][RefreshFails =>
             /\ client'["bot1"].token = client["bot1"].token
             /\ client'["bot1"].refreshToken = client["bot1"].refreshToken
             /\ client'["bot1"].userId = client["bot1"].userId
             /\ configFile' = configFile]_vars

\* The refresh that start makes for want of an access token has failed, and
\* start has thrown.
StartFailedOnRefresh ==
    /\ Len(ended) = 3
    /\ ended[1].fn = "refreshToken" /\ ended[1].res = "throws"
    /\ ended[3].fn = "start" /\ ended[3].res = "throws"
    /\ client["bot1"].token = 0

\* C6 as stated: a validateToken call that returns has issued exactly one
\* write if the identifier answered differs from the configured one, and
\* none if it equals it.
ValidateWritesOnMismatchOnly ==
    \A i \in Ended("validateToken", "returns") :
       ended[i].w = IF ended[i].v.user_id # ended[i].v.botUserId THEN 1 ELSE 0

\* C6, amended: a validateToken call that returns has called persistTokens
\* for the identifier exactly once if the identifier answered differs from
\* the configured one, which issues one write if it can read the document and
\* none otherwise, and has not called it if the identifiers are equal; the
\* only other writes of the call are those of the refreshToken calls it
\* makes, one when there is no access token and one when the first answer
\* is not a success, each issuing at most one write.
ValidatePersistsOnMismatchOnly ==
    \A i \in Ended("validateToken", "returns") :
       /\ ended[i].x <= 1
       /\ ended[i].r \in ended[i].x..(ended[i].x + 1)
       /\ IF ended[i].v.user_id # ended[i].v.botUserId
          THEN /\ PersistedBefore(i)
               /\ ended[i].w - ended[i - 1].w \in 0..ended[i].r
          ELSE /\ i = 1
               /\ ended[i].w \in 0..ended[i].r

\* A validateToken call that had to refresh and found another identifier
\* than the configured one has returned after two writes.
ValidatedAfterTwoWrites ==
    \E i \in Ended("validateToken", "returns") :
       /\ ended[i].w = 2
       /\ ended[i].r = 1
       /\ ended[i].v.user_id # ended[i].v.botUserId

\* C9 as stated: sendMessage never throws to its caller.
SendMessageNeverRaises == Ended("sendMessage", "throws") = {}

\* C10 as stated: start returns only after a successful validation, which a
\* refresh precedes exactly when there was no access token, and a start that
\* throws leaves the timers unarmed.
StartRefreshesOnlyWithoutToken ==
    /\ \A i \in Ended("start", "returns") :
          /\ i > 2
          /\ ended[i - 2].fn = "validateToken" /\ ended[i - 2].res = "returns"
          /\ (ended[i].r > 0) <=> (ended[i].v = 0)
    /\ \A i \in Ended("start", "throws") : ~client["bot1"].timers

\* C10, amended: start returns only after a successful validation of the
\* access token, which a refresh precedes exactly when there was no access
\* token or the first answer of the validation was not a success; a start
\* that throws leaves both timers unarmed, and the timers are armed by a
\* start that returns only.
StartValidatesFirst ==
    /\ [](\A i \in Ended("start", "returns") :
             /\ i > 2
             /\ ended[i - 2].fn = "validateToken" /\ ended[i - 2].res = "returns"
             /\ client["bot1"].userId = ended[i - 2].v.user_id
             /\ client["bot1"].token # 0
             /\ client["bot1"].timers
             /\ ended[i].x <= 1
             /\ ended[i].r = ended[i].x + (IF ended[i].v = 0 THEN 1 ELSE 0))
    /\ [](\A i \in Ended("start", "throws") :
             /\ ~client["bot1"].timers
             /\ task["bot1"]["main"].result = "throws")
    /\ [][(client'["bot1"].timers /\ ~client["bot1"].timers) =>
             Ended("start", "returns")' # {}]_vars

\* start has returned after a refresh it made although there was an access
\* token: the first answer of the validation was not a success.
StartedAfterForcedRefresh ==
    \E i \in Ended("start", "returns") :
       /\ ended[i].v # 0
       /\ ended[i].r = 1
       /\ client["bot1"].timers

\* The chain t of identity b was awaiting the writeFile of persistTokens and
\* has gone on in this step.
Wrote(b, t) ==
    /\ Awaits(b, t, "persist.write")
    /\ task'[b][t] # task[b][t]

\* C16 as stated: a write of persistTokens by one identity leaves the entry
\* of the other identity in the document as it was immediately before the
\* write, and leaves the entry of the writing identity as it was when the
\* client id stored in it is not the identity's own.
WriteKeepsOtherEntry ==
    [][\A b \in BotKeys : \A t \in Tasks :
          Wrote(b, t) =>
             /\ \A o \in BotKeys \ {b} : configFile'[o] = configFile[o]
             /\ configFile[b].clientId # b => configFile'[b] = configFile[b]]_vars

\* C17: a persistTokens call whose readFile or writeFile fails returns, the
\* refreshToken or validateToken call that made it returns too, and the step
\* leaves the access token, the refresh token and the own-user identifier of
\* the identity in memory as they were.
PersistFailureContained ==
    [][\A i \in DOMAIN ended' :
          (ended'[i].fn = "persistTokens" /\ ended'[i].f > 0) =>
             /\ ended'[i].res = "returns"
             /\ i + 1 \in DOMAIN ended'
             /\ ended'[i + 1].fn \in {"refreshToken", "validateToken"}
             /\ ended'[i + 1].res = "returns"
             /\ client'["bot1"].token = client["bot1"].token
             /\ client'["bot1"].refreshToken = client["bot1"].refreshToken
             /\ client'["bot1"].userId = client["bot1"].userId]_vars

\* A refreshToken call has returned after the writeFile of its persistTokens
\* call failed: the new access token is in memory and not in the document.
RefreshedWithoutDocument ==
    /\ Len(ended) >= 2
    /\ ended[1].fn = "persistTokens" /\ ended[1].f = 1 /\ ended[1].w = 1
    /\ ended[2].fn = "refreshToken" /\ ended[2].res = "returns"
    /\ client["bot1"].token = ended[2].v.access_token
    /\ configFile["bot1"].clientId = "bot1"
    /\ configFile["bot1"].oauthToken # client["bot1"].token

\* C21: a firing of the validation timer makes at most one refreshToken
\* call, and makes one when a validation answer in it was not a success.
FiringRefreshesOnce ==
    \A i \in Ended("validationTimer", "returns") :
       /\ ended[i].r <= 1
       /\ ended[i].x >= 1 => ended[i].r = 1

\* A refreshToken call of bot1 has failed in this step.
RefreshFailed ==
    \E i \in DOMAIN ended' :
        ended'[i].fn = "refreshToken" /\ ended'[i].res = "throws"

\* C22: the chain in which a refreshToken call fails does not go on to
\* another request to the token endpoint in the same run, whichever timer
\* started the call.
FailedRefreshNotRetried ==
    [][RefreshFailed =>
          \A t \in Tasks :
             task'["bot1"][t] # task["bot1"][t] => ~Awaits("bot1", t, "refresh.fetch")']_vars

\* The firing of the validation timer that ended in this step ended in
\* failure: the last call it awaited threw.
FiringFailed(i) ==
    /\ i \in Ended("validationTimer", "returns")
    /\ i > 1
    /\ ended[i - 1].res = "throws"

\* C23: when a firing of the validation timer has ended in failure, the
\* access token in memory is the one the firing began with.
FailedFiringKeepsToken ==
    \A i \in DOMAIN ended : FiringFailed(i) => client["bot1"].token = ended[i].v

\* C23, as the code has it: the access token in memory is never put back.
\* It changes only in the step in which a refreshToken call gets a successful
\* answer, to the access token of that answer, and a step in which a
\* validateToken call fails leaves it as it is.
TokenChangesOnlyByRefresh ==
    /\ [][client'["bot1"].token # client["bot1"].token =>
             \E t \in Tasks :
                /\ Answered(t, "refresh.fetch")
                /\ Awaits("bot1", t, "persist.read")'
                /\ client'["bot1"].token = task'["bot1"][t].stack[2].v.access_token]_vars
    /\ [][(\E i \in DOMAIN ended' :
               ended'[i].fn = "validateToken" /\ ended'[i].res = "throws") =>
             client'["bot1"].token = client["bot1"].token]_vars

\* A firing of the validation timer has ended in failure and the access
\* token is the refreshed one, not the one the firing began with.
FailedFiringWithNewToken ==
    \E i \in DOMAIN ended :
        /\ FiringFailed(i)
        /\ ended[i].v # 0
        /\ client["bot1"].token \notin {0, ended[i].v}

\* The refreshToken calls of identity b that await the token endpoint.
ExchangesInFlight(b) == {t \in Tasks : Awaits(b, t, "refresh.fetch")}

\* C27: an identity has at most one request to the token endpoint in flight,
\* whichever of its timers and calls made it.
OneExchangeInFlight ==
    \A b \in BotKeys : Cardinality(ExchangesInFlight(b)) <= 1

\* C28: when no write of the document is in flight and no write has failed,
\* the document holds the stored sequence.
DocumentEqualsStore ==
    (fileWrites = {} /\ ~writeFailed) => storeFile = contractAddresses

====
